---- MODULE Spec2Model ----
(***************************************************************************)
(* A model of app.py, the Streamlit macro dashboard: one run of the script  *)
(* from the Level 1 metrics to the composite score, with the outcomes of    *)
(* the external calls (FRED, Yahoo Finance, the sentiment page) drawn from  *)
(* small sets.                                                              *)
(*                                                                          *)
(* Numbers are exact rationals <<num, den>> with den > 0, kept in lowest    *)
(* terms; the float NaN is <<0, 0>>.  The script's floats are IEEE doubles: *)
(* the model does not round, so it is exact for the small values used here. *)
(***************************************************************************)
EXTENDS Integers, Sequences, FiniteSets, TLC

(***************************************************************************)
(* Bounds of the model.                                                     *)
(***************************************************************************)
\* dates of a FRED history are 1 .. MaxDate
MaxDate == 2
\* a downloaded price series has at most MaxLen closes
MaxLen == 2
\* dates of the series handed to the alignment on its own
MaxAlignDate == 4
\* the normalisation on its own is applied to x in -MaxX*50 .. MaxX*50, step 50
MaxX == 6

(***************************************************************************)
(* Rational arithmetic with NaN.                                            *)
(***************************************************************************)
NaN == <<0, 0>>

Abs(n) == IF n < 0 THEN 0 - n ELSE n

RECURSIVE Gcd(_, _)
Gcd(a, b) == IF b = 0 THEN a ELSE Gcd(b, a % b)

Rat(n, d) ==
    IF d = 0 THEN NaN
    ELSE LET g == Gcd(Abs(n), Abs(d))
             s == IF d < 0 THEN 0 - 1 ELSE 1
         IN  <<(s * n) \div g, (s * d) \div g>>

Float(n) == <<n, 1>>

IsNaN(r) == r[2] = 0

Add(a, b) == IF IsNaN(a) \/ IsNaN(b) THEN NaN
             ELSE Rat(a[1] * b[2] + b[1] * a[2], a[2] * b[2])

Sub(a, b) == IF IsNaN(a) \/ IsNaN(b) THEN NaN
             ELSE Rat(a[1] * b[2] - b[1] * a[2], a[2] * b[2])

Mul(a, b) == IF IsNaN(a) \/ IsNaN(b) THEN NaN
             ELSE Rat(a[1] * b[1], a[2] * b[2])

Div(a, b) == IF IsNaN(a) \/ IsNaN(b) THEN NaN
             ELSE Rat(a[1] * b[2], a[2] * b[1])

\* comparisons with a NaN operand are false, as for floats
Lt(a, b) == ~IsNaN(a) /\ ~IsNaN(b) /\ a[1] * b[2] < b[1] * a[2]

Le(a, b) == ~IsNaN(a) /\ ~IsNaN(b) /\ a[1] * b[2] <= b[1] * a[2]

Max(S) == CHOOSE m \in S : \A n \in S : n <= m

\* Series.min() and Series.max() of a non-empty numeric price series
SeriesMin(s) == CHOOSE m \in {s[i] : i \in DOMAIN s} :
                    \A i \in DOMAIN s : Le(m, s[i])

SeriesMax(s) == CHOOSE m \in {s[i] : i \in DOMAIN s} :
                    \A i \in DOMAIN s : Le(s[i], m)

\* Series.iloc[-1] of a non-empty price series
Last(s) == s[Len(s)]

(***************************************************************************)
(* Python values.                                                           *)
(***************************************************************************)
None == [kind |-> "None"]

\* a name the script has not assigned yet
Unbound == [kind |-> "unbound"]

Series(data) == [kind |-> "Series", data |-> data]

\* an exception leaving a function
Raise(exc) == [kind |-> "raise", exc |-> exc]

PyFloat(x) == [t |-> "float", f |-> x]

PyStr(s) == [t |-> "str", s |-> s]

Tuple(val, date) == [kind |-> "tuple", val |-> val, date |-> date]

\* the texts FRED sends as an observation's value: decimal numbers, and "."
\* where it has no data
NumberTexts == {"1", "2", "3"}

IsNumberText(s) == s \in NumberTexts

\* float(val) of a text that denotes a number
ParseFloat(s) == CASE s = "1" -> Float(1)
                   [] s = "2" -> Float(2)
                   [] s = "3" -> Float(3)

\* pd.to_numeric(..., errors='coerce'): a text that is no number becomes NaN
ToNumericCoerce(s) == IF IsNumberText(s) THEN ParseFloat(s) ELSE NaN

(***************************************************************************)
(* Helper functions of the script.  resp is what the HTTP call does:        *)
(* [kind |-> "error"] (requests raises) or [kind |-> "json", obs |-> ...].  *)
(***************************************************************************)
\* fred_series_latest: obs is the observations list (limit=1), a sequence of
\* [date, value] records
fred_series_latest(api_key, resp) ==
    IF ~api_key THEN None
    ELSE IF resp.kind = "error" THEN None
    ELSE IF resp.obs = <<>> THEN None
    ELSE LET val  == resp.obs[1].value
             date == resp.obs[1].date
         IN  IF IsNumberText(val) THEN Tuple(PyFloat(ParseFloat(val)), date)
             ELSE Tuple(PyStr(val), date)

\* fred_series_df: obs is the observations list in ascending date order with
\* one entry per date, a function from its dates to the value texts
fred_series_df(api_key, resp) ==
    IF ~api_key THEN None
    ELSE IF resp.kind = "error" THEN Raise("ConnectionError")
    ELSE IF DOMAIN resp.obs = {} THEN None
    ELSE Series([d \in DOMAIN resp.obs |-> ToNumericCoerce(resp.obs[d])])

\* yfin_download: resp is [kind |-> "error"] or [kind |-> "frame", close |-> seq]
yfin_download(resp) ==
    IF resp.kind = "error" THEN Series(<<>>)
    ELSE IF resp.close # <<>> THEN Series(resp.close)
    ELSE Series(<<>>)

(***************************************************************************)
(* pandas: index alignment and dropna, as used for df_spread.               *)
(***************************************************************************)
\* a series reindexed to a larger index holds NaN at the dates it lacks
At(s, d) == IF d \in DOMAIN s THEN s[d] ELSE NaN

\* us10 - us2: the result's index is the union of the two indexes
SeriesSub(a, b) == [d \in DOMAIN a \cup DOMAIN b |-> Sub(At(a, d), At(b, d))]

SeriesTimes(a, k) == [d \in DOMAIN a |-> Mul(a[d], Float(k))]

\* pd.DataFrame({"10Y": .., "2Y": .., "10y-2y (bps)": ..}): union of the indexes
DataFrame(a, b, c) ==
    [d \in DOMAIN a \cup DOMAIN b \cup DOMAIN c |->
        [y10 |-> At(a, d), y2 |-> At(b, d), spread_bps |-> At(c, d)]]

\* dropna(how='all') instead of dropna(): a row goes only when all of it is NaN
DropNaHowAll(df) ==
    LET keep == {d \in DOMAIN df : ~IsNaN(df[d].y10) \/ ~IsNaN(df[d].y2)
                                   \/ ~IsNaN(df[d].spread_bps)}
    IN  [d \in keep |-> df[d]]

\* DataFrame.dropna(): the rows with no NaN
DropNa(df) ==
    LET keep == {d \in DOMAIN df : ~IsNaN(df[d].y10) /\ ~IsNaN(df[d].y2)
                                   /\ ~IsNaN(df[d].spread_bps)}
    IN  [d \in keep |-> df[d]]

\* lines 120-121
DfSpread(a, b) ==
    LET spread == SeriesTimes(SeriesSub(a, b), 100)
    IN  DropNa(DataFrame(a, b, spread))

\* Series.iloc[-1] of a date-indexed series: the entry of its last date
ILocLast(s) == s[Max(DOMAIN s)]

(***************************************************************************)
(* numpy.                                                                   *)
(***************************************************************************)
\* the line through (xp1, fp1) and (xp2, fp2), followed beyond the two points
\* too, and the midpoint of fp1 and fp2 when xp1 = xp2
LinearMap(x, xp, fp) ==
    IF IsNaN(x) THEN NaN
    ELSE IF xp[1] = xp[2] THEN Div(Add(fp[1], fp[2]), Float(2))
    ELSE Add(fp[1], Mul(Div(Sub(x, xp[1]), Sub(xp[2], xp[1])), Sub(fp[2], fp[1])))

\* np.interp(x, [xp1, xp2], [fp1, fp2]) for xp1 <= xp2: NaN for a NaN x, the
\* end values outside [xp1, xp2], fp2 at x = xp2 (so also when xp1 = xp2),
\* fp1 at x = xp1, and the line through the two points in between
NpInterp(x, xp, fp) ==
    IF IsNaN(x) THEN NaN
    ELSE IF Lt(xp[2], x) THEN fp[2]
    ELSE IF Lt(x, xp[1]) THEN fp[1]
    ELSE IF Le(xp[2], x) THEN fp[2]
    ELSE IF xp[1] = x THEN fp[1]
    ELSE Add(Mul(Div(Sub(fp[2], fp[1]), Sub(xp[2], xp[1])), Sub(x, xp[1])), fp[1])

\* np.clip(x, lo, hi); a NaN stays NaN
NpClip(x, lo, hi) ==
    IF IsNaN(x) THEN NaN
    ELSE IF Lt(x, lo) THEN lo
    ELSE IF Lt(hi, x) THEN hi
    ELSE x

\* int(x) of a float: truncation toward zero; int(nan) raises ValueError
PyInt(x) ==
    IF IsNaN(x) THEN Raise("ValueError")
    ELSE IF x[1] >= 0 THEN [kind |-> "int", n |-> x[1] \div x[2]]
    ELSE [kind |-> "int", n |-> 0 - ((0 - x[1]) \div x[2])]

\* line 236
WeightedSum(v, s, f) ==
    Add(Add(Mul(v, Rat(4, 10)), Mul(s, Rat(4, 10))), Mul(f, Rat(2, 10)))

\* line 237
CompositeScore(v, s, f) == PyInt(NpClip(WeightedSum(v, s, f), Float(0), Float(100)))

(***************************************************************************)
(* What the external calls can do.                                          *)
(***************************************************************************)
HttpError == [kind |-> "error"]

Json(obs) == [kind |-> "json", obs |-> obs]

\* a FRED latest-observation request (limit=1)
LatestTexts == {"3", "."}

LatestResponses ==
    {HttpError, Json(<<>>)}
    \cup {Json(<<[date |-> MaxDate, value |-> v]>>) : v \in LatestTexts}

\* a FRED history request: an error, no observations, or observations at
\* some of the dates
HistoryResponses(dates, texts) ==
    {HttpError} \cup {Json(o) : o \in UNION {[D -> texts] : D \in SUBSET dates}}

YieldTexts == {"1", "3", "."}

YieldResponses == HistoryResponses(1 .. MaxDate, YieldTexts)

\* the liquidity series are only plotted: one history stands for all
LiquidityResponses == {HttpError, Json(<<>>), Json(<<"3">>)}

PriceValues == {Float(10), Float(20)}

Closes == UNION {[1 .. n -> PriceValues] : n \in 0 .. MaxLen}

\* a price download: yfinance raises, or returns a frame of closes
PriceResponses == {HttpError} \cup {[kind |-> "frame", close |-> c] : c \in Closes}

\* the chart-only downloads: one series stands for all
ChartResponses == {HttpError, [kind |-> "frame", close |-> <<>>],
                   [kind |-> "frame", close |-> <<Float(10)>>]}

\* the sentiment page: requests raises, or a page with a status, with or
\* without the text "Fear & Greed" and a "NN / 100" the regex matches
SentimentResponses ==
    {HttpError}
    \cup [kind : {"page"}, status : {200, 503}, marker : BOOLEAN, match : BOOLEAN]

(***************************************************************************)
(* The state of one run of the script.                                      *)
(***************************************************************************)
VARIABLES
    pc,             \* the block of the script that runs next
    error,          \* the uncaught exception that ended the run, and its line
    rendered,       \* what the last block wrote to the page
    FRED_KEY,       \* whether st.secrets holds FRED_API_KEY
    fed_latest, cpi_latest, payrolls, gdp_latest,
    us10, us2, df_spread,
    vix_series, eurusd_series,
    vix_norm, spread_norm, dxy_norm,
    latest_spread,
    caught,         \* the statement whose exception line 233 caught, or "none"
    composite_score,
    interp_call     \* the arguments and result of a normalisation on its own

vars == <<pc, error, rendered, FRED_KEY, fed_latest, cpi_latest, payrolls,
          gdp_latest, us10, us2, df_spread, vix_series, eurusd_series,
          vix_norm, spread_norm, dxy_norm, latest_spread, caught,
          composite_score, interp_call>>

level1 == <<fed_latest, cpi_latest, payrolls, gdp_latest>>

yields == <<us10, us2, df_spread>>

signals == <<vix_series, eurusd_series, vix_norm, spread_norm, dxy_norm,
             latest_spread, caught, composite_score>>

NoError == [exc |-> "none", line |-> 0]

\* lines 65-76: the secrets are read, nothing else is assigned yet
Init ==
    /\ pc = "col1"
    /\ error = NoError
    /\ rendered = {}
    /\ FRED_KEY \in BOOLEAN
    /\ fed_latest = Unbound /\ cpi_latest = Unbound
    /\ payrolls = Unbound /\ gdp_latest = Unbound
    /\ us10 = Unbound /\ us2 = Unbound /\ df_spread = Unbound
    /\ vix_series = Unbound /\ eurusd_series = Unbound
    /\ vix_norm = Unbound /\ spread_norm = Unbound /\ dxy_norm = Unbound
    /\ latest_spread = Unbound
    /\ caught = "none"
    /\ composite_score = Unbound
    /\ interp_call = Unbound

\* an uncaught exception ends the run
Crash(exc, line) == pc' = "crashed" /\ error' = [exc |-> exc, line |-> line]

(***************************************************************************)
(* Level 1, lines 78-104.                                                   *)
(***************************************************************************)
\* `if latest:` of None or of a 2-tuple
Truthy(latest) == latest # None

\* f"{latest[0]:.2f}" and f"{int(latest[0])}": both raise ValueError on a str
FormatRaises(latest) == latest.val.t = "str"

\* the body of one column after the fetch
ShowLatest(latest, line, next) ==
    IF ~Truthy(latest)
    THEN /\ rendered' = {"placeholder"}
         /\ pc' = next
         /\ error' = error
    ELSE IF FormatRaises(latest)
    THEN /\ rendered' = {}
         /\ Crash("ValueError", line)
    ELSE /\ rendered' = {"metric"}
         /\ pc' = next
         /\ error' = error

Col1 ==
    /\ pc = "col1"
    /\ \E resp \in LatestResponses :
          /\ fed_latest' = fred_series_latest(FRED_KEY, resp)
          /\ ShowLatest(fed_latest', 81, "col2")
    /\ UNCHANGED <<FRED_KEY, cpi_latest, payrolls, gdp_latest, yields, signals,
                   interp_call>>

Col2 ==
    /\ pc = "col2"
    /\ \E resp \in LatestResponses :
          /\ cpi_latest' = fred_series_latest(FRED_KEY, resp)
          /\ ShowLatest(cpi_latest', 88, "col3")
    /\ UNCHANGED <<FRED_KEY, fed_latest, payrolls, gdp_latest, yields, signals,
                   interp_call>>

Col3 ==
    /\ pc = "col3"
    /\ \E resp \in LatestResponses :
          /\ payrolls' = fred_series_latest(FRED_KEY, resp)
          /\ ShowLatest(payrolls', 95, "col4")
    /\ UNCHANGED <<FRED_KEY, fed_latest, cpi_latest, gdp_latest, yields, signals,
                   interp_call>>

Col4 ==
    /\ pc = "col4"
    /\ \E resp \in LatestResponses :
          /\ gdp_latest' = fred_series_latest(FRED_KEY, resp)
          /\ ShowLatest(gdp_latest', 102, "yields")
    /\ UNCHANGED <<FRED_KEY, fed_latest, cpi_latest, payrolls, yields, signals,
                   interp_call>>

(***************************************************************************)
(* Level 2, lines 115-157.                                                  *)
(***************************************************************************)
\* lines 116-127: the two yield histories, their spread and the two charts
Yields ==
    /\ pc = "yields"
    /\ \E resp10 \in YieldResponses, resp2 \in YieldResponses :
          LET r10 == fred_series_df(FRED_KEY, resp10)
              r2  == fred_series_df(FRED_KEY, resp2)
          IN  IF r10.kind = "raise"
              THEN /\ Crash(r10.exc, 117)
                   /\ rendered' = {}
                   /\ UNCHANGED yields
              ELSE IF r2.kind = "raise"
              THEN /\ Crash(r2.exc, 118)
                   /\ rendered' = {}
                   /\ us10' = r10
                   /\ UNCHANGED <<us2, df_spread>>
              ELSE /\ us10' = r10
                   /\ us2' = r2
                   /\ IF r10 # None /\ r2 # None
                      THEN /\ df_spread' = DfSpread(r10.data, r2.data)
                           /\ rendered' = {"yields chart", "spread chart"}
                      ELSE /\ df_spread' = df_spread
                           /\ rendered' = {"placeholder"}
                   /\ pc' = "prices"
                   /\ error' = error
    /\ UNCHANGED <<FRED_KEY, level1, signals, interp_call>>

\* lines 129-142: five downloads, of which EUR/USD and USD/JPY are charted
Prices ==
    /\ pc = "prices"
    /\ \E r1 \in ChartResponses, r2 \in ChartResponses :
          LET eurusd == yfin_download(r1)
              usdjpy == yfin_download(r2)
          IN  rendered' = (IF eurusd.data # <<>> THEN {"EUR/USD chart"} ELSE {})
                          \cup (IF usdjpy.data # <<>> THEN {"USD/JPY chart"} ELSE {})
    /\ pc' = "equities"
    /\ UNCHANGED <<error, FRED_KEY, level1, yields, signals, interp_call>>

\* lines 144-157: a chart and a metric for each of the S&P 500 and the VIX
\* that has data, nothing for one that has none
Equities ==
    /\ pc = "equities"
    /\ \E r1 \in ChartResponses, r2 \in ChartResponses :
          LET spx == yfin_download(r1)
              vix == yfin_download(r2)
          IN  rendered' = (IF spx.data # <<>>
                           THEN {"S&P chart", "S&P metric"} ELSE {})
                          \cup (IF vix.data # <<>>
                                THEN {"VIX chart", "VIX metric"} ELSE {})
    /\ pc' = "liquidity"
    /\ UNCHANGED <<error, FRED_KEY, level1, yields, signals, interp_call>>

(***************************************************************************)
(* Level 3, lines 168-209.                                                  *)
(***************************************************************************)
\* lines 168-179
Liquidity ==
    /\ pc = "liquidity"
    /\ \E r1 \in LiquidityResponses, r2 \in LiquidityResponses :
          LET bal == fred_series_df(FRED_KEY, r1)
              m2  == fred_series_df(FRED_KEY, r2)
          IN  IF bal.kind = "raise"
              THEN Crash(bal.exc, 170) /\ rendered' = {}
              ELSE IF m2.kind = "raise"
              THEN Crash(m2.exc, 171) /\ rendered' = {}
              ELSE /\ rendered' = IF bal # None /\ m2 # None
                                  THEN {"liquidity chart"}
                                  ELSE {"placeholder"}
                   /\ pc' = "cot"
                   /\ error' = error
    /\ UNCHANGED <<FRED_KEY, level1, yields, signals, interp_call>>

\* lines 181-191: no upload, a CSV that parses, or one that does not
Cot ==
    /\ pc = "cot"
    /\ \E uploaded \in {"none", "csv", "garbage"} :
          rendered' = CASE uploaded = "none" -> {}
                        [] uploaded = "csv" -> {"COT preview"}
                        [] uploaded = "garbage" -> {"COT error"}
    /\ pc' = "sentiment"
    /\ UNCHANGED <<error, FRED_KEY, level1, yields, signals, interp_call>>

\* lines 193-209
Sentiment ==
    /\ pc = "sentiment"
    /\ \E resp \in SentimentResponses :
          rendered' = IF resp.kind = "error" THEN {"placeholder"}
                      ELSE IF resp.status = 200 /\ resp.marker
                      THEN IF resp.match THEN {"sentiment metric"}
                           ELSE {"placeholder"}
                      ELSE {"placeholder"}
    /\ pc' = "signals"
    /\ UNCHANGED <<error, FRED_KEY, level1, yields, signals, interp_call>>

(***************************************************************************)
(* The composite, lines 219-238.  Any Exception a statement of the try      *)
(* block raises is caught at line 233 and ends the block.                   *)
(***************************************************************************)
\* lines 219-222
Signals ==
    /\ pc = "signals"
    /\ \E resp \in PriceResponses : vix_series' = yfin_download(resp)
    /\ vix_norm' = Float(50)
    /\ spread_norm' = Float(50)
    /\ dxy_norm' = Float(50)
    /\ pc' = "try_vix"
    /\ rendered' = {}
    /\ UNCHANGED <<error, FRED_KEY, level1, yields, eurusd_series, latest_spread,
                   caught, composite_score, interp_call>>

\* line 225
VixNorm(s) == NpInterp(Last(s), <<SeriesMin(s), SeriesMax(s)>>,
                       <<Float(0), Float(100)>>)

\* lines 224-225
TryVix ==
    /\ pc = "try_vix"
    /\ IF vix_series.data # <<>>
       THEN \E raises \in BOOLEAN :
               IF raises
               THEN /\ caught' = "vix"
                    /\ pc' = "composite"
                    /\ vix_norm' = vix_norm
               ELSE /\ vix_norm' = VixNorm(vix_series.data)
                    /\ pc' = "try_spread"
                    /\ caught' = caught
       ELSE /\ pc' = "try_spread"
            /\ UNCHANGED <<vix_norm, caught>>
    /\ UNCHANGED <<error, rendered, FRED_KEY, level1, yields, vix_series,
                   eurusd_series, spread_norm, dxy_norm, latest_spread,
                   composite_score, interp_call>>

\* line 227: the last entry of each series; fred_series_df returns no empty
\* series, so the `else 0` is never taken
LatestSpread(a, b) == Sub(ILocLast(a), ILocLast(b))

\* line 228
SpreadNorm(x) == NpInterp(x, <<Float(0 - 200), Float(200)>>,
                          <<Float(100), Float(0)>>)

\* lines 226-228
TrySpread ==
    /\ pc = "try_spread"
    /\ IF us10 # None /\ us2 # None
       THEN \E raises \in BOOLEAN :
               IF raises
               THEN /\ caught' = "spread"
                    /\ pc' = "composite"
                    /\ UNCHANGED <<latest_spread, spread_norm>>
               ELSE /\ latest_spread' = LatestSpread(us10.data, us2.data)
                    /\ spread_norm' = SpreadNorm(latest_spread')
                    /\ pc' = "try_fx"
                    /\ caught' = caught
       ELSE /\ pc' = "try_fx"
            /\ UNCHANGED <<latest_spread, spread_norm, caught>>
    /\ UNCHANGED <<error, rendered, FRED_KEY, level1, yields, vix_series,
                   eurusd_series, vix_norm, dxy_norm, composite_score,
                   interp_call>>

\* line 232
DxyNorm(s) == NpInterp(Last(s), <<SeriesMin(s), SeriesMax(s)>>,
                       <<Float(100), Float(0)>>)

\* lines 229-232
TryFx ==
    /\ pc = "try_fx"
    /\ \E resp \in PriceResponses :
          /\ eurusd_series' = yfin_download(resp)
          /\ IF eurusd_series'.data # <<>>
             THEN \E raises \in BOOLEAN :
                     IF raises
                     THEN caught' = "fx" /\ dxy_norm' = dxy_norm
                     ELSE /\ dxy_norm' = DxyNorm(eurusd_series'.data)
                          /\ caught' = caught
             ELSE UNCHANGED <<dxy_norm, caught>>
    /\ pc' = "composite"
    /\ UNCHANGED <<error, rendered, FRED_KEY, level1, yields, vix_series,
                   vix_norm, spread_norm, latest_spread, composite_score,
                   interp_call>>

\* lines 236-238
Composite ==
    /\ pc = "composite"
    /\ LET score == CompositeScore(vix_norm, spread_norm, dxy_norm)
       IN  IF score.kind = "int"
           THEN /\ composite_score' = score.n
                /\ rendered' = {"composite metric"}
                /\ pc' = "done"
                /\ error' = error
           ELSE /\ Crash(score.exc, 237)
                /\ rendered' = {}
                /\ composite_score' = composite_score
    /\ UNCHANGED <<FRED_KEY, level1, yields, vix_series, eurusd_series,
                   vix_norm, spread_norm, dxy_norm, latest_spread, caught,
                   interp_call>>

Next ==
    \/ Col1 \/ Col2 \/ Col3 \/ Col4
    \/ Yields \/ Prices \/ Equities
    \/ Liquidity \/ Cot \/ Sentiment
    \/ Signals \/ TryVix \/ TrySpread \/ TryFx \/ Composite

Spec == Init /\ [][Next]_vars

(***************************************************************************)
(* The alignment on its own: DfSpread applied to two histories as           *)
(* fred_series_df returns them.                                             *)
(***************************************************************************)
AlignTexts10 == {"2", "3", "."}

AlignTexts2 == {"1", "."}

Histories(texts) ==
    {fred_series_df(TRUE, r) : r \in HistoryResponses(1 .. MaxAlignDate, texts)}
    \ {None, Raise("ConnectionError")}

InitAlign ==
    /\ pc = "align"
    /\ error = NoError
    /\ rendered = {}
    /\ FRED_KEY = TRUE
    /\ fed_latest = Unbound /\ cpi_latest = Unbound
    /\ payrolls = Unbound /\ gdp_latest = Unbound
    /\ us10 \in Histories(AlignTexts10)
    /\ us2 \in Histories(AlignTexts2)
    /\ df_spread = Unbound
    /\ vix_series = Unbound /\ eurusd_series = Unbound
    /\ vix_norm = Unbound /\ spread_norm = Unbound /\ dxy_norm = Unbound
    /\ latest_spread = Unbound
    /\ caught = "none"
    /\ composite_score = Unbound
    /\ interp_call = Unbound

\* lines 120-121
Align ==
    /\ pc = "align"
    /\ df_spread' = DfSpread(us10.data, us2.data)
    /\ pc' = "aligned"
    /\ UNCHANGED <<error, rendered, FRED_KEY, level1, us10, us2, signals,
                   interp_call>>

SpecAlign == InitAlign /\ [][Align]_vars

(***************************************************************************)
(* The normalisation and the score on their own: np.interp applied to a     *)
(* value inside or outside its domain, and the composite of the result and  *)
(* two further factors.                                                     *)
(***************************************************************************)
InterpXs == {Float(50 * k) : k \in (0 - MaxX) .. MaxX}

DomainPoints == {0 - 200, 0, 200}

InterpDomains ==
    {<<Float(p[1]), Float(p[2])>> :
        p \in {q \in DomainPoints \X DomainPoints : q[1] <= q[2]}}

InterpRanges == {<<Float(0), Float(100)>>, <<Float(100), Float(0)>>}

OtherFactors == {Float(0 - 100), Float(50), Float(200)}

InitInterp ==
    /\ pc = "interp"
    /\ error = NoError
    /\ rendered = {}
    /\ FRED_KEY = FALSE
    /\ fed_latest = Unbound /\ cpi_latest = Unbound
    /\ payrolls = Unbound /\ gdp_latest = Unbound
    /\ us10 = Unbound /\ us2 = Unbound /\ df_spread = Unbound
    /\ vix_series = Unbound /\ eurusd_series = Unbound
    /\ vix_norm = Unbound /\ spread_norm = Unbound /\ dxy_norm = Unbound
    /\ latest_spread = Unbound
    /\ caught = "none"
    /\ composite_score = Unbound
    /\ interp_call \in [x : InterpXs, xp : InterpDomains, fp : InterpRanges,
                        y : {Unbound}]

\* lines 225, 228, 232
Interp ==
    /\ pc = "interp"
    /\ interp_call' = [interp_call EXCEPT
                          !.y = NpInterp(interp_call.x, interp_call.xp,
                                         interp_call.fp)]
    /\ pc' = "interp_done"
    /\ UNCHANGED <<error, rendered, FRED_KEY, level1, yields, signals>>

\* lines 236-237
Score ==
    /\ pc = "interp_done"
    /\ \E s \in OtherFactors, f \in OtherFactors :
          /\ vix_norm' = interp_call.y
          /\ spread_norm' = s
          /\ dxy_norm' = f
          /\ composite_score' = CompositeScore(vix_norm', s, f).n
    /\ pc' = "scored"
    /\ UNCHANGED <<error, rendered, FRED_KEY, level1, yields, vix_series,
                   eurusd_series, latest_spread, caught, interp_call>>

NextInterp == Interp \/ Score

SpecInterp == InitInterp /\ [][NextInterp]_vars

(***************************************************************************)
(* The claims.                                                              *)
(***************************************************************************)
\* the run has executed line 237, successfully or not
ScoreAttempted == pc = "done" \/ (pc = "crashed" /\ error.line = 237)

\* the try block of lines 223-234 has been left
AfterTry == pc = "composite" \/ ScoreAttempted

VixMissing == vix_series = Series(<<>>)

YieldsMissing == us10 = None \/ us2 = None

FxMissing == eurusd_series = Series(<<>>)

\* C1: no outcome of the external calls is fatal to a run: the run never ends
\* in an uncaught exception, each Level 1 metric whose fetch gave nothing
\* shows a placeholder, and a finished run has rendered the composite score.
C1_NoErrorIsFatal ==
    /\ pc # "crashed"
    /\ (pc = "col2" /\ fed_latest = None => rendered = {"placeholder"})
    /\ (pc = "col3" /\ cpi_latest = None => rendered = {"placeholder"})
    /\ (pc = "col4" /\ payrolls = None => rendered = {"placeholder"})
    /\ (pc = "yields" /\ gdp_latest = None => rendered = {"placeholder"})
    /\ (pc = "done" => composite_score \in 0 .. 100
                       /\ rendered = {"composite metric"})

\* C2: whatever the three factors are, also when one derives from a "."
\* observation, line 237 yields an integer in [0,100]: the weighted sum
\* clamped to [0,100] and truncated.
C2_CompositeIsInteger ==
    ScoreAttempted =>
        /\ pc = "done"
        /\ composite_score \in 0 .. 100
        /\ LET w == WeightedSum(vix_norm, spread_norm, dxy_norm)
           IN  composite_score =
                  IF Lt(w, Float(0)) THEN 0
                  ELSE IF Lt(Float(100), w) THEN 100
                  ELSE w[1] \div w[2]

\* C3: when a factor has no data, the composite is computed with 50 in its
\* place and lies in [0,100]; with all three missing it is 50.
C3_MissingFactorsDefault ==
    ScoreAttempted /\ (VixMissing \/ YieldsMissing \/ FxMissing) =>
        /\ pc = "done"
        /\ (VixMissing => vix_norm = Float(50))
        /\ (YieldsMissing => spread_norm = Float(50))
        /\ (FxMissing => dxy_norm = Float(50))
        /\ composite_score \in 0 .. 100
        /\ (VixMissing /\ YieldsMissing /\ FxMissing => composite_score = 50)

Level1Results == {fed_latest, cpi_latest, payrolls, gdp_latest}

\* C4: a latest-value fetch whose observation is "." yields None, as a
\* missing key or a failed request does: no fetch returns a tuple holding a
\* text, and no Level 1 block fails formatting one.
C4_DotYieldsAbsent ==
    /\ \A r \in Level1Results : r.kind = "tuple" => r.val.t = "float"
    /\ ~(pc = "crashed" /\ error.line \in {81, 88, 95, 102})

SpreadComputed == latest_spread # Unbound

\* C5: the spread factor is the latest spread in basis points (100 times the
\* spread in percentage points) mapped linearly from [-200,200] onto
\* [100,0]: +2.00 points give 0, -2.00 give 100, 0 gives 50.
C5_SpreadFactorInBasisPoints ==
    SpreadComputed /\ ~IsNaN(latest_spread) =>
        /\ spread_norm = LinearMap(Mul(latest_spread, Float(100)),
                                   <<Float(0 - 200), Float(200)>>,
                                   <<Float(100), Float(0)>>)
        /\ (latest_spread = Float(2) => spread_norm = Float(0))
        /\ (latest_spread = Float(0 - 2) => spread_norm = Float(100))
        /\ (latest_spread = Float(0) => spread_norm = Float(50))

Flat(s) == s # <<>> /\ SeriesMin(s) = SeriesMax(s)

VixNormalized ==
    /\ pc \in {"try_spread", "try_fx"} \/ AfterTry
    /\ ~VixMissing
    /\ caught # "vix"

FxNormalized ==
    /\ AfterTry
    /\ eurusd_series # Unbound
    /\ ~FxMissing
    /\ caught # "fx"

\* C6: a flat series (its minimum equals its maximum) normalises to the
\* midpoint 50, for the VIX range [0,100] and the EUR/USD range [100,0].
C6_FlatSeriesIsMidpoint ==
    /\ (VixNormalized /\ Flat(vix_series.data) => vix_norm = Float(50))
    /\ (FxNormalized /\ Flat(eurusd_series.data) => dxy_norm = Float(50))

InterpDone == pc \in {"interp_done", "scored"}

\* C7, as claimed: normalisation follows the line beyond the domain: over
\* [-200,200] and onto [100,0] an input of 300 gives -25 and -300 gives 125.
C7_ClampFree ==
    InterpDone /\ interp_call.xp[1] # interp_call.xp[2] =>
        interp_call.y = LinearMap(interp_call.x, interp_call.xp, interp_call.fp)

Between(y, a, b) == (Le(a, y) /\ Le(y, b)) \/ (Le(b, y) /\ Le(y, a))

\* C7, amended: normalisation clamps: a value below the domain gives the
\* range's first end and a value above it the second (over [-200,200] and
\* onto [100,0], 300 gives 0 and -300 gives 100), a value within a proper
\* domain lies on the line, the factor is never outside the range, and the
\* composite score is clamped to [0,100] as well.
C7_InterpClamps ==
    /\ InterpDone =>
          LET x == interp_call.x
              xp == interp_call.xp
              fp == interp_call.fp
              y == interp_call.y
          IN  /\ (Lt(x, xp[1]) => y = fp[1])
              /\ (Lt(xp[2], x) => y = fp[2])
              /\ (Lt(xp[1], xp[2]) /\ Le(xp[1], x) /\ Le(x, xp[2])
                    => y = LinearMap(x, xp, fp))
              /\ Between(y, fp[1], fp[2])
              /\ (xp = <<Float(0 - 200), Float(200)>>
                  /\ fp = <<Float(100), Float(0)>>
                    => /\ (x = Float(300) => y = Float(0))
                       /\ (x = Float(0 - 300) => y = Float(100)))
    /\ pc = "scored" =>
          /\ composite_score \in 0 .. 100
          /\ LET w == WeightedSum(vix_norm, spread_norm, dxy_norm)
             IN  /\ (Lt(w, Float(0)) => composite_score = 0)
                 /\ (Lt(Float(100), w) => composite_score = 100)

\* C7's case: an input of 300 over [-200,200] onto [100,0] has given 0
C7_Witness ==
    /\ pc = "interp_done"
    /\ interp_call.x = Float(300)
    /\ interp_call.xp = <<Float(0 - 200), Float(200)>>
    /\ interp_call.fp = <<Float(100), Float(0)>>
    /\ interp_call.y = Float(0)

\* the dates at which both histories hold a number
CommonDates ==
    {d \in DOMAIN us10.data \cap DOMAIN us2.data :
        ~IsNaN(us10.data[d]) /\ ~IsNaN(us2.data[d])}

\* C8: the frame holds exactly the dates at which both histories hold a
\* number, nothing interpolated or carried forward, and each row holds the
\* two yields of its date and their difference (in basis points).
C8_InnerJoin ==
    pc = "aligned" =>
        /\ DOMAIN df_spread = CommonDates
        /\ \A d \in DOMAIN df_spread :
              /\ df_spread[d].y10 = us10.data[d]
              /\ df_spread[d].y2 = us2.data[d]
              /\ ~IsNaN(df_spread[d].spread_bps)
              /\ df_spread[d].spread_bps =
                    Mul(Sub(us10.data[d], us2.data[d]), Float(100))

\* C8's case: dates {1,2,3} and {2,3,4} have given exactly {2,3}
C8_Witness ==
    /\ pc = "aligned"
    /\ DOMAIN us10.data = {1, 2, 3}
    /\ DOMAIN us2.data = {2, 3, 4}
    /\ \A d \in {1, 2, 3} : ~IsNaN(us10.data[d])
    /\ \A d \in {2, 3, 4} : ~IsNaN(us2.data[d])
    /\ DOMAIN df_spread = {2, 3}

\* no "." among the observations of the two yield histories
YieldsNumeric ==
    /\ \A d \in DOMAIN us10.data : ~IsNaN(us10.data[d])
    /\ \A d \in DOMAIN us2.data : ~IsNaN(us2.data[d])

\* C9: the spread that feeds the factor is that of the last row of the
\* aligned frame: the difference of two observations of one date, both
\* present.  Stated for histories that hold numbers only and share a date,
\* where the aligned frame has a last row.
C9_SpreadFromAlignedRow ==
    SpreadComputed /\ YieldsNumeric /\ DOMAIN df_spread # {} =>
        LET row == ILocLast(df_spread)
        IN  latest_spread = Sub(row.y10, row.y2)

\* C10: a factor keeps its default 50 only when its own data is missing or
\* its own computation fails: in a finished run each factor whose data is
\* there and whose own statement did not raise holds its normalised value.
C10_FactorsIndependent ==
    pc = "done" =>
        /\ (~VixMissing /\ caught # "vix" => vix_norm = VixNorm(vix_series.data))
        /\ (~YieldsMissing /\ YieldsNumeric /\ caught # "spread"
              => spread_norm = SpreadNorm(LatestSpread(us10.data, us2.data)))
        /\ (eurusd_series # Unbound /\ ~FxMissing /\ caught # "fx"
              => dxy_norm = DxyNorm(eurusd_series.data))

====
